---- MODULE Spec2Model ----
(***************************************************************************)
(* ISO 8601 week dates (package week): the Week value type, its            *)
(* arithmetic (Add, Sub), its conversion to and from calendar dates and    *)
(* its text codec.  Integers are Go ints; a time.Time at midnight UTC is   *)
(* the number of days since 0000-01-01 (proleptic Gregorian); a []byte is  *)
(* a sequence of ASCII codes; an error is the chain of its messages, the   *)
(* empty chain being nil.                                                  *)
(***************************************************************************)
EXTENDS Integers, Sequences, FiniteSets, TLC

VARIABLES
    w,        \* the Week object the program holds (receiver of the methods)
    u,        \* a second Week: argument of Sub, or the target of a decode
    op,       \* the last call
    n,        \* integer argument of the last call (weeks, year, weekday)
    k,        \* second integer argument of the last call (week of New)
    data,     \* []byte argument or result of the last call
    ret,      \* Week returned by the last call
    val,      \* integer returned by the last call
    err,      \* error returned by the last call (<<>> is nil)
    panicked, \* the last call panicked
    sub       \* frame of Week.Sub: its locals and its position

vars == <<w, u, op, n, k, data, ret, val, err, panicked, sub>>

-----------------------------------------------------------------------------
(* Bounds of the model *)

\* years modelled on each side of the first, the last and the middle year
Span == 0
\* the middle year of the modelled windows
MidYear == 2008
\* largest number of weeks added or subtracted in one call
MaxN == 60
\* days modelled on each side of every January 1st
DaySpan == 7
\* a year far enough from the supported range for yearDiff*yearDiff to leave int32
FarYear == 46400
\* years modelled on each side of the middle year for the calendar conversions
CalSpan == 20
\* largest distance in years between the two weeks of a Sub that are near each other
MaxWalk == 1

-----------------------------------------------------------------------------
(* Go integer arithmetic *)

\* Go's / on ints truncates toward zero (b > 0)
GoDiv(a, b) ==
    LET q == a \div b
    IN  IF a < 0 /\ a % b /= 0 THEN q + 1 ELSE q

\* Go's % has the sign of the dividend (b > 0)
GoMod(a, b) == a - b * GoDiv(a, b)

\* Go's / for a divisor of either sign
GoQuo(a, b) == IF b > 0 THEN GoDiv(a, b) ELSE 0 - GoDiv(a, 0 - b)

Abs(a) == IF a < 0 THEN 0 - a ELSE a

\* the int32 nearest to minus infinity
MinInt32 == 0 - 2147483647 - 1

\* the low 32 bits of a*b as a signed int: Go's * on a 32-bit int wraps around.
\* The product is built from 8- and 16-bit pieces so that no intermediate value
\* leaves the 32-bit range.
IntMul(a, b) ==
    IF Abs(a) <= 46340 /\ Abs(b) <= 46340
    THEN a * b
    ELSE LET x   == Abs(a)
             y   == Abs(b)
             xh  == x \div 65536
             xl  == x % 65536
             yh  == y \div 65536
             yl  == y % 65536
             x1  == xl \div 256
             x0  == xl % 256
             y1  == yl \div 256
             y0  == yl % 256
             t   == (x1 * y0 + x0 * y1) * 256 + x0 * y0
             lo  == t % 65536
             hi  == (x1 * y1 + (t \div 65536) + ((xh * yl) % 65536)
                      + ((xl * yh) % 65536)) % 65536
             neg == (a < 0) /= (b < 0)
             \* two's complement of hi:lo when the product is negative
             lo2 == IF neg THEN (65536 - lo) % 65536 ELSE lo
             hi2 == IF neg
                    THEN (IF lo = 0 THEN (65536 - hi) % 65536 ELSE 65535 - hi)
                    ELSE hi
         IN  IF hi2 >= 32768 THEN (hi2 - 65536) * 65536 + lo2 ELSE hi2 * 65536 + lo2

\* Newton's iteration for the integer square root of x > 0, from the guess r
RECURSIVE SqrtIter(_, _)
SqrtIter(x, r) ==
    LET r2 == (r + x \div r) \div 2
    IN  IF r2 >= r THEN r ELSE SqrtIter(x, r2)

\* int(math.Sqrt(float64(x))) for x >= 0: the square root, truncated
\* (the first guess is at least the root: 46341 * 46341 is above every int32)
IntSqrt(x) == IF x = 0 THEN 0 ELSE SqrtIter(x, IF x > 46341 THEN 46341 ELSE x)

\* int(NaN) is implementation-dependent in Go: the builds give the most
\* negative int (x86) or zero (arm, wasm)
NaNInts == {MinInt32, 0}

-----------------------------------------------------------------------------
(* The calendar of package time: a time.Time at midnight UTC is a day number *)

\* number of leap years in [0, year), negative below year 0
LeapsBefore(year) ==
    ((year + 3) \div 4) - ((year + 99) \div 100) + ((year + 399) \div 400)

\* day number of January 1st of year
DaysBeforeYear(year) == 365 * year + LeapsBefore(year)

\* time.Date(year, 1, day, 0, 0, 0, 0, time.UTC): days past the end of January
\* (and days before its start) are normalised into the neighbouring months
Date(year, day) == DaysBeforeYear(year) + day - 1

\* t.Weekday(): Sunday = 0 ... Saturday = 6; 0000-01-01 is a Saturday
Weekday(t) == (t + 6) % 7

\* t.Year()
YearOf(t) ==
    LET c   == t \div 146097
        r   == t % 146097
        est == 400 * c + (r * 400) \div 146097
    IN  CHOOSE y \in (est - 1)..(est + 1) :
            DaysBeforeYear(y) <= t /\ t < DaysBeforeYear(y + 1)

\* t.YearDay() - 1
YDay(t) == t - DaysBeforeYear(YearOf(t))

Sunday == 0
Thursday == 4

\* t.ISOWeek(): the year and the week of the Thursday of t's week
ISOWeek(t) ==
    LET d0  == Thursday - Weekday(t)
        d   == IF d0 = 4 THEN 0 - 3 ELSE d0
        thu == t + d
    IN  [year |-> YearOf(thu), week |-> (YDay(thu) \div 7) + 1]

-----------------------------------------------------------------------------
(* Validation and the weeks of a year *)

MinYear == 0
MaxYear == 9999

isLeapYear(year) ==
    GoMod(year, 4) = 0 /\ (GoMod(year, 100) /= 0 \/ GoMod(year, 400) = 0)

\* p(year) = (year + year/4 - year/100 + year/400) mod 7
p(year) ==
    GoMod(year + GoDiv(year, 4) - GoDiv(year, 100) + GoDiv(year, 400), 7)

weeksInYear(year) ==
    IF p(year) = 4 \/ (p(year) = 3 /\ isLeapYear(year)) THEN 53 ELSE 52

\* errors: the chain of messages, outermost first; nil is the empty chain
Nil == <<>>
NewError(msg) == <<msg>>
Wrap(e, msg) == <<msg>> \o e

checkYearAndWeek(year, week) ==
    IF year < MinYear \/ year > MaxYear THEN NewError("InvalidYear")
    ELSE IF week < 1 \/ week > weeksInYear(year) THEN NewError("InvalidWeek")
    ELSE Nil

-----------------------------------------------------------------------------
(* The Week type and its constructor *)

\* Week{}: the zero value
Zero == [year |-> 0, week |-> 0]

Week(year, week) == [year |-> year, week |-> week]

\* New as it would be if it returned the Week it was asked for beside the error
NewKeeps(year, week) ==
    [w |-> Week(year, week), err |-> checkYearAndWeek(year, week)]

\* New(year, week) (Week, error)
New(year, week) ==
    LET e == checkYearAndWeek(year, week)
    IN  IF e /= Nil
        THEN [w |-> Zero, err |-> e]
        ELSE [w |-> Week(year, week), err |-> Nil]

-----------------------------------------------------------------------------
(* Arithmetic *)

\* the loop of Week.add as it would be if, going back, it added the weeks of
\* the year it leaves instead of the weeks of the year it enters
RECURSIVE addLoopStale(_, _, _, _)
addLoopStale(year, week, maxWeeks, sign) ==
    IF week > maxWeeks \/ week < 0
    THEN LET year2 == year + sign
             week2 == IF sign = 1 THEN week - maxWeeks ELSE week + maxWeeks
         IN  addLoopStale(year2, week2, weeksInYear(year2), sign)
    ELSE Week(year, week)

\* the for loop of Week.add: one year per iteration, in the direction of sign
RECURSIVE addLoop(_, _, _, _)
addLoop(year, week, maxWeeks, sign) ==
    IF week > maxWeeks \/ week < 0
    THEN LET year2 == year + sign
             week2 == IF sign = 1 THEN week - maxWeeks ELSE week
             max2  == weeksInYear(year2)
             week3 == IF sign = 0 - 1 THEN week2 + max2 ELSE week2
         IN  addLoop(year2, week3, max2, sign)
    ELSE Week(year, week)

\* Week.add as it would be without its special case for week 0
addNoZero(x, weeksToAdd) ==
    LET sign == IF weeksToAdd < 0 THEN 0 - 1 ELSE 1
        l    == addLoop(x.year, x.week + weeksToAdd, weeksInYear(x.year), sign)
    IN  New(l.year, l.week)

\* w.add(weeksToAdd) (Week, error)
add(x, weeksToAdd) ==
    LET sign == IF weeksToAdd < 0 THEN 0 - 1 ELSE 1
        l    == addLoop(x.year, x.week + weeksToAdd, weeksInYear(x.year), sign)
        year == IF l.week = 0 THEN l.year + sign ELSE l.year
        week == IF l.week = 0 THEN weeksInYear(year) ELSE l.week
    IN  New(year, week)

Add(x, weeks) == add(x, weeks)
NextWeek(x) == Add(x, 1)
PreviousWeek(x) == Add(x, 0 - 1)

\* the frame of Week.Sub before it is called
Idle ==
    [pc |-> "idle", yearA |-> 0, yearB |-> 0, weekA |-> 0, weekB |-> 0,
     diff |-> 0, direction |-> 0, iters |-> 0, result |-> 0]

\* direction of w.Sub(u): int(math.Sqrt(float64(yearDiff*yearDiff))) / yearDiff,
\* where nan is what the build makes of int(NaN)
subDirection(yearDiff, nan) ==
    IF yearDiff /= 0
    THEN LET sq == IntMul(yearDiff, yearDiff)
         IN  GoQuo(IF sq < 0 THEN nan ELSE IntSqrt(sq), yearDiff)
    ELSE 1

\* w.Sub(u) up to the head of its for loop
subEnter(x, y, nan) ==
    LET direction   == subDirection(y.year - x.year, nan)
        smallerWeek == IF direction = 0 - 1 THEN y ELSE x
        biggerWeek  == IF direction = 0 - 1 THEN x ELSE y
    IN  [pc |-> "loop",
         yearA |-> smallerWeek.year, yearB |-> biggerWeek.year,
         weekA |-> smallerWeek.week, weekB |-> biggerWeek.week,
         diff |-> 0, direction |-> direction, iters |-> 0, result |-> 0]

\* an iteration of the loop of Sub as it would be if it counted the weeks of
\* the year after yearA
subStepNextYear(f) ==
    IF f.yearA > f.yearB
    THEN [f EXCEPT !.pc = "panic"]
    ELSE IF f.yearA /= f.yearB
         THEN [f EXCEPT !.diff = f.diff + weeksInYear(f.yearA + 1),
                        !.yearA = f.yearA + 1,
                        !.iters = f.iters + 1]
         ELSE [f EXCEPT !.diff = f.diff + f.weekB - f.weekA,
                        !.iters = f.iters + 1,
                        !.result = IntMul(f.diff + f.weekB - f.weekA, f.direction),
                        !.pc = "done"]

\* one iteration of the for loop of w.Sub(u)
subStep(f) ==
    IF f.yearA > f.yearB
    THEN [f EXCEPT !.pc = "panic"]
    ELSE IF f.yearA /= f.yearB
         THEN [f EXCEPT !.diff = f.diff + weeksInYear(f.yearA),
                        !.yearA = f.yearA + 1,
                        !.iters = f.iters + 1]
         ELSE LET diff == f.diff + f.weekB - f.weekA
              IN  [f EXCEPT !.diff = diff,
                            !.iters = f.iters + 1,
                            !.result = IntMul(diff, f.direction),
                            !.pc = "done"]

\* the for loop of w.Sub(u), run to its end
RECURSIVE subRun(_)
subRun(f) == IF f.pc = "loop" THEN subRun(subStep(f)) ELSE f

\* w.Sub(u) int, as one call
Sub(x, y, nan) == subRun(subEnter(x, y, nan))

-----------------------------------------------------------------------------
(* The text codec: YYYY-Www *)

Quote == 34
Hyphen == 45
LetterW == 87
Digit0 == 48

isDigit(b) == Digit0 <= b /\ b <= Digit0 + 9

encodeISOWeekDate(year, week) ==
    LET e == checkYearAndWeek(year, week)
    IN  IF e /= Nil
        THEN [data |-> <<>>, err |-> e]
        ELSE [data |-> << Digit0 + ((year \div 1000) % 10),
                          Digit0 + ((year \div 100) % 10),
                          Digit0 + ((year \div 10) % 10),
                          Digit0 + (year % 10),
                          Hyphen, LetterW,
                          Digit0 + ((week \div 10) % 10),
                          Digit0 + (week % 10) >>,
              err |-> Nil]

decodeISOWeekDate(d) ==
    LET bad == [year |-> 0, week |-> 0, err |-> NewError("FormatError")]
    IN  IF Len(d) /= 8 THEN bad
        ELSE IF d[5] /= Hyphen \/ d[6] /= LetterW THEN bad
        ELSE IF \E i \in {1, 2, 3, 4, 7, 8} : ~isDigit(d[i]) THEN bad
        ELSE LET year == (d[1] - Digit0) * 1000 + (d[2] - Digit0) * 100
                         + (d[3] - Digit0) * 10 + (d[4] - Digit0)
                 week == (d[7] - Digit0) * 10 + (d[8] - Digit0)
                 e    == checkYearAndWeek(year, week)
             IN  IF e /= Nil
                 THEN [year |-> 0, week |-> 0, err |-> e]
                 ELSE [year |-> year, week |-> week, err |-> Nil]

\* the outcome of a method with a pointer receiver: the receiver afterwards,
\* the error returned, and whether the call panicked instead of returning
Outcome(x, e, pnc) == [w |-> x, err |-> e, panic |-> pnc]

\* w.UnmarshalJSON(data): data[0] and data[1 : len(data)-1] are evaluated
\* unguarded, so an index or a slice out of range panics
UnmarshalJSON(x, d) ==
    IF Len(d) = 0 THEN Outcome(x, Nil, TRUE)
    ELSE IF d[1] /= Quote \/ d[Len(d)] /= Quote
    THEN Outcome(x, NewError("unable to unmarshal json: string literal expected"), FALSE)
    ELSE IF 1 > Len(d) - 1 THEN Outcome(x, Nil, TRUE)
    ELSE LET r == decodeISOWeekDate(SubSeq(d, 2, Len(d) - 1))
         IN  IF r.err /= Nil
             THEN Outcome(x, Wrap(r.err, "unable to unmarshal json"), FALSE)
             ELSE Outcome(Week(r.year, r.week), Nil, FALSE)

\* MarshalJSON as it would be without the closing quote
MarshalJSONOpen(x) ==
    LET r == encodeISOWeekDate(x.year, x.week)
    IN  IF r.err /= Nil
        THEN [data |-> <<>>, err |-> Wrap(r.err, "unable to marshal json")]
        ELSE [data |-> <<Quote>> \o r.data, err |-> Nil]

\* w.MarshalJSON() ([]byte, error)
MarshalJSON(x) ==
    LET r == encodeISOWeekDate(x.year, x.week)
    IN  IF r.err /= Nil
        THEN [data |-> <<>>, err |-> Wrap(r.err, "unable to marshal json")]
        ELSE [data |-> <<Quote>> \o r.data \o <<Quote>>, err |-> Nil]

UnmarshalText(x, d) ==
    LET r == decodeISOWeekDate(d)
    IN  IF r.err /= Nil
        THEN Outcome(x, Wrap(r.err, "unable to unmarshal text"), FALSE)
        ELSE Outcome(Week(r.year, r.week), Nil, FALSE)

MarshalText(x) ==
    LET r == encodeISOWeekDate(x.year, x.week)
    IN  IF r.err /= Nil
        THEN [data |-> <<>>, err |-> Wrap(r.err, "unable to marshal text")]
        ELSE [data |-> r.data, err |-> Nil]

Value(x) ==
    LET r == encodeISOWeekDate(x.year, x.week)
    IN  IF r.err /= Nil
        THEN [data |-> <<>>, err |-> Wrap(r.err, "unable to create value")]
        ELSE [data |-> r.data, err |-> Nil]

\* the dynamic types of the src argument of Scan
SrcTypes == {"string", "[]byte", "int64"}

\* w.Scan(src), src of dynamic type typ holding the bytes d
Scan(x, typ, d) ==
    IF typ \notin {"string", "[]byte"}
    THEN Outcome(x, NewError("unable to scan value: incompatible type"), FALSE)
    ELSE LET r == decodeISOWeekDate(d)
         IN  IF r.err /= Nil
             THEN Outcome(x, Wrap(r.err, "unable to scan value"), FALSE)
             ELSE Outcome(Week(r.year, r.week), Nil, FALSE)

-----------------------------------------------------------------------------
(* Conversion to and from calendar dates *)

FromTime(t) ==
    LET yw == ISOWeek(t)
    IN  Week(yw.year, yw.week)

convertToISOWeekday(weekday) == IF weekday = Sunday THEN 7 ELSE weekday

normalizeOrdinal(year, ordinal) ==
    IF ordinal < 1
    THEN [year |-> year - 1,
          ordinal |-> (IF isLeapYear(year - 1) THEN 366 ELSE 365) + ordinal]
    ELSE LET daysInYear == IF isLeapYear(year) THEN 366 ELSE 365
         IN  IF ordinal > daysInYear
             THEN [year |-> year + 1, ordinal |-> ordinal - daysInYear]
             ELSE [year |-> year, ordinal |-> ordinal]

\* w.Time(weekday): midnight UTC of that weekday of the week
Time(x, weekday) ==
    LET isoWeekday == convertToISOWeekday(weekday)
        jan4th     == Date(x.year, 4)
        correction == convertToISOWeekday(Weekday(jan4th)) + 3
        ordinal    == x.week * 7 + isoWeekday - correction
        no         == normalizeOrdinal(x.year, ordinal)
    IN  Date(no.year, no.ordinal)

-----------------------------------------------------------------------------
(* Inputs of the calls *)

\* the modelled years: around the first, the middle and the last supported year
NearYears ==
    ((MinYear - Span)..(MinYear + Span))
        \cup ((MidYear - Span)..(MidYear + Span))
        \cup ((MaxYear - Span)..(MaxYear + Span))

\* year arguments: the modelled years and the years next to the supported range
YearInputs == NearYears \cup {MinYear - 1, MaxYear + 1}

\* week arguments, from below the first to above the last week of any year
WeekInputs == 0..54

\* time.Time arguments: the days around January 1st of those years
TimeInputs == {Date(y, d) : y \in YearInputs, d \in (1 - DaySpan)..(1 + DaySpan)}

Weekdays == 0..6

\* YYYY-Www of any year in 0..9999 and week in 0..99, valid or not
Format(year, week) ==
    << Digit0 + ((year \div 1000) % 10), Digit0 + ((year \div 100) % 10),
       Digit0 + ((year \div 10) % 10), Digit0 + (year % 10), Hyphen, LetterW,
       Digit0 + ((week \div 10) % 10), Digit0 + (week % 10) >>

\* tokens of valid and invalid weeks
Tokens == {Format(y, wk) : y \in {MidYear, MaxYear}, wk \in {0, 1, 53, 54, 99}}

\* a token with one byte replaced, cut short, or one byte too long
Mangled ==
    LET base == Format(MidYear, 1)
    IN  {[base EXCEPT ![i] = c] : i \in 1..8, c \in {Quote, 120}}
            \cup {SubSeq(base, 1, j) : j \in 0..7}
            \cup {base \o <<Digit0>>}

TextInputs == Tokens \cup Mangled

\* text inputs bare, quoted, and with one of the two quotes missing
JSONInputs ==
    TextInputs
        \cup {<<Quote>> \o x \o <<Quote>> : x \in TextInputs}
        \cup {<<Quote>> \o x : x \in TextInputs}
        \cup {x \o <<Quote>> : x \in TextInputs}

-----------------------------------------------------------------------------
(* The program: calls on the Week it holds *)

Init ==
    /\ w = Zero
    /\ u = Zero
    /\ op = "ready"
    /\ n = 0
    /\ k = 0
    /\ data = <<>>
    /\ ret = Zero
    /\ val = 0
    /\ err = Nil
    /\ panicked = FALSE
    /\ sub = Idle

Ready == op = "ready" /\ ~panicked

\* w, err = New(year, week)
CallNew(year, week) ==
    /\ Ready
    /\ LET r == New(year, week)
       IN  /\ w' = r.w
           /\ ret' = r.w
           /\ err' = r.err
    /\ op' = "New"
    /\ n' = year
    /\ k' = week
    /\ UNCHANGED <<u, data, val, panicked, sub>>

\* w = FromTime(t)
CallFromTime(t) ==
    /\ Ready
    /\ w' = FromTime(t)
    /\ ret' = FromTime(t)
    /\ err' = Nil
    /\ op' = "FromTime"
    /\ val' = t
    /\ UNCHANGED <<u, n, k, data, panicked, sub>>

\* ret, err = w.Add(weeks)
CallAdd(weeks) ==
    /\ Ready
    /\ LET r == Add(w, weeks)
       IN  /\ ret' = r.w
           /\ err' = r.err
    /\ op' = "Add"
    /\ n' = weeks
    /\ UNCHANGED <<w, u, k, data, val, panicked, sub>>

\* ret, err = w.Next()
CallNext ==
    /\ Ready
    /\ LET r == NextWeek(w)
       IN  /\ ret' = r.w
           /\ err' = r.err
    /\ op' = "Next"
    /\ UNCHANGED <<w, u, n, k, data, val, panicked, sub>>

\* ret, err = w.Previous()
CallPrevious ==
    /\ Ready
    /\ LET r == PreviousWeek(w)
       IN  /\ ret' = r.w
           /\ err' = r.err
    /\ op' = "Previous"
    /\ UNCHANGED <<w, u, n, k, data, val, panicked, sub>>

\* a method with a pointer receiver called on w
Mutate(name, d, r) ==
    /\ w' = r.w
    /\ ret' = r.w
    /\ err' = r.err
    /\ panicked' = r.panic
    /\ op' = name
    /\ data' = d
    /\ UNCHANGED <<u, n, k, val, sub>>

\* err = w.UnmarshalJSON(d)
CallUnmarshalJSON(d) == Ready /\ Mutate("UnmarshalJSON", d, UnmarshalJSON(w, d))

\* err = w.UnmarshalText(d)
CallUnmarshalText(d) == Ready /\ Mutate("UnmarshalText", d, UnmarshalText(w, d))

\* err = w.Scan(src)
CallScan(typ, d) ==
    /\ Ready
    /\ w' = Scan(w, typ, d).w
    /\ ret' = Scan(w, typ, d).w
    /\ err' = Scan(w, typ, d).err
    /\ op' = "Scan"
    /\ data' = d
    /\ n' = IF typ \in {"string", "[]byte"} THEN 1 ELSE 0
    /\ UNCHANGED <<u, k, val, panicked, sub>>

\* a method that encodes w
Encode(name, r) ==
    /\ data' = r.data
    /\ err' = r.err
    /\ op' = name
    /\ UNCHANGED <<w, u, n, k, ret, val, panicked, sub>>

\* data, err = w.MarshalJSON()
CallMarshalJSON == Ready /\ Encode("MarshalJSON", MarshalJSON(w))

\* data, err = w.MarshalText()
CallMarshalText == Ready /\ Encode("MarshalText", MarshalText(w))

\* data, err = w.Value()
CallValue == Ready /\ Encode("Value", Value(w))

\* a decode of what w was just encoded to, into a new Week: var ret Week
DecodeBack(from, name, r) ==
    /\ op = from
    /\ err = Nil
    /\ ~panicked
    /\ ret' = r.w
    /\ err' = r.err
    /\ panicked' = r.panic
    /\ op' = name
    /\ UNCHANGED <<w, u, n, k, data, val, sub>>

\* err = ret.UnmarshalJSON(data) after data, _ = w.MarshalJSON()
JSONRoundTrip == DecodeBack("MarshalJSON", "JSONRoundTrip", UnmarshalJSON(Zero, data))

\* err = ret.UnmarshalText(data) after data, _ = w.MarshalText()
TextRoundTrip == DecodeBack("MarshalText", "TextRoundTrip", UnmarshalText(Zero, data))

\* err = ret.Scan(data) after data, _ = w.Value()
ValueRoundTrip == DecodeBack("Value", "ValueRoundTrip", Scan(Zero, "[]byte", data))

\* the calls that return a Week
Returning == {"Add", "Next", "Previous"}

\* the program goes on, with the Week a call returned without error, or with w
\* (the Week it holds stays within the modelled years)
Continue ==
    /\ op /= "ready"
    /\ ~panicked
    /\ w' = IF op \in Returning /\ err = Nil /\ ret.year \in NearYears THEN ret ELSE w
    /\ op' = "ready"
    /\ n' = 0
    /\ k' = 0
    /\ data' = <<>>
    /\ ret' = Zero
    /\ val' = 0
    /\ err' = Nil
    /\ UNCHANGED <<u, panicked, sub>>

Next ==
    \/ Ready /\ \E year \in YearInputs, week \in WeekInputs : CallNew(year, week)
    \/ Ready /\ \E t \in TimeInputs : CallFromTime(t)
    \/ Ready /\ \E weeks \in (0 - MaxN)..MaxN : CallAdd(weeks)
    \/ CallNext
    \/ CallPrevious
    \/ Ready /\ \E d \in JSONInputs : CallUnmarshalJSON(d)
    \/ Ready /\ \E d \in TextInputs : CallUnmarshalText(d)
    \/ Ready /\ \E typ \in SrcTypes, d \in TextInputs : CallScan(typ, d)
    \/ CallMarshalJSON
    \/ CallMarshalText
    \/ CallValue
    \/ JSONRoundTrip
    \/ TextRoundTrip
    \/ ValueRoundTrip
    \/ Continue

Spec == Init /\ [][Next]_vars

-----------------------------------------------------------------------------
(* The calendar functions, applied to drawn inputs *)

\* the valid weeks of the given years: what New returns without error
ValidWeeks(years) ==
    {r.w : r \in {x \in {New(y, wk) : y \in years, wk \in WeekInputs} : x.err = Nil}}

CalYears ==
    ((MidYear - CalSpan)..(MidYear + CalSpan)) \cup YearInputs

\* val = weeksInYear(year)
CallWeeksInYear(year) ==
    /\ Ready
    /\ op' = "weeksInYear"
    /\ n' = year
    /\ val' = weeksInYear(year)
    /\ UNCHANGED <<w, u, k, data, ret, err, panicked, sub>>

\* val = x.Time(weekday)
CallTime(x, weekday) ==
    /\ Ready
    /\ op' = "Time"
    /\ w' = x
    /\ n' = weekday
    /\ val' = Time(x, weekday)
    /\ UNCHANGED <<u, k, data, ret, err, panicked, sub>>

\* ret = FromTime(val), val being what w.Time returned
TimeRoundTrip ==
    /\ op = "Time"
    /\ op' = "FromTime(Time)"
    /\ ret' = FromTime(val)
    /\ UNCHANGED <<w, u, n, k, data, val, err, panicked, sub>>

\* the weeks whose days are converted
CalWeeks == ValidWeeks(CalYears)

NextCal ==
    \/ Ready /\ \E year \in MinYear..MaxYear : CallWeeksInYear(year)
    \/ Ready /\ \E x \in CalWeeks, weekday \in Weekdays : CallTime(x, weekday)
    \/ TimeRoundTrip

SpecCal == Init /\ [][NextCal]_vars

-----------------------------------------------------------------------------
(* Week.Sub, one iteration of its loop per step, on drawn pairs of weeks *)

\* the weeks the program can hold: the zero value, what New returns and what
\* FromTime returns
Held == {Zero} \cup ValidWeeks(YearInputs) \cup {FromTime(t) : t \in TimeInputs}

\* the weeks within MaxWalk years of x
Near(x) ==
    ValidWeeks((x.year - MaxWalk)..(x.year + MaxWalk))
        \cup {h \in Held : Abs(h.year - x.year) <= MaxWalk}

\* a week FromTime returns for a date far in the future
FarWeek == FromTime(Date(FarYear, 1))

\* the pairs of a far week and the first week of the first year
FarPairs ==
    {<<FarWeek, New(MinYear, 1).w>>, <<New(MinYear, 1).w, FarWeek>>}

\* w.Sub(u) is called: x.Sub(&y)
StartSub(x, y, nan) ==
    /\ Ready
    /\ op' = "Sub"
    /\ w' = x
    /\ u' = y
    /\ sub' = subEnter(x, y, nan)
    /\ UNCHANGED <<n, k, data, ret, val, err, panicked>>

\* u, err = x.Add(weeks), and then x.Sub(&u) is called
StartAddSub(x, weeks, nan) ==
    /\ Ready
    /\ op' = "AddSub"
    /\ w' = x
    /\ n' = weeks
    /\ LET r == Add(x, weeks)
       IN  /\ u' = r.w
           /\ ret' = r.w
           /\ err' = r.err
           /\ sub' = IF r.err = Nil THEN subEnter(x, r.w, nan) ELSE Idle
    /\ UNCHANGED <<k, data, val, panicked>>

\* one iteration of the loop of Sub; the panic ends the program
StepSub ==
    /\ sub.pc = "loop"
    /\ sub' = subStep(sub)
    /\ panicked' = (subStep(sub).pc = "panic")
    /\ val' = subStep(sub).result
    /\ UNCHANGED <<w, u, op, n, k, data, ret, err>>

\* the receivers of Add
Summands == ValidWeeks(NearYears)

NextSub ==
    \/ Ready /\ \E x \in Held, nan \in NaNInts : \E y \in Near(x) : StartSub(x, y, nan)
    \/ Ready /\ \E pr \in FarPairs, nan \in NaNInts : StartSub(pr[1], pr[2], nan)
    \/ Ready /\ \E x \in Summands, weeks \in (0 - MaxN)..MaxN, nan \in NaNInts :
            StartAddSub(x, weeks, nan)
    \/ StepSub

SpecSub == Init /\ [][NextSub]_vars

-----------------------------------------------------------------------------
(* What the claims speak of *)

\* a valid Week: a supported year and a week of that year
Valid(x) ==
    /\ MinYear <= x.year /\ x.year <= MaxYear
    /\ 1 <= x.week /\ x.week <= weeksInYear(x.year)

\* January 1st or December 31st of the year is a Thursday
IsoLongYear(year) ==
    Weekday(Date(year, 1)) = Thursday \/ Weekday(Date(year + 1, 0)) = Thursday

\* the week m weeks away from x: within the year of x when it has that week,
\* and otherwise counted on from week 1 of the next year, or back from the
\* last week of the previous year
RECURSIVE Away(_, _)
Away(x, m) ==
    IF 1 <= x.week + m /\ x.week + m <= weeksInYear(x.year)
    THEN Week(x.year, x.week + m)
    ELSE IF m > 0
         THEN Away(Week(x.year + 1, 1), m - (weeksInYear(x.year) - x.week + 1))
         ELSE Away(Week(x.year - 1, weeksInYear(x.year - 1)), m + x.week)

\* u is chronologically after x
After(x, y) == y.year > x.year \/ (y.year = x.year /\ y.week > x.week)

\* d has the form YYYY-Www: 8 bytes, digits around -W
HasForm(d) ==
    /\ Len(d) = 8
    /\ d[5] = Hyphen
    /\ d[6] = LetterW
    /\ \A i \in {1, 2, 3, 4, 7, 8} : isDigit(d[i])

\* the year and the week that the digits of d spell
Spelled(d) ==
    Week((d[1] - Digit0) * 1000 + (d[2] - Digit0) * 100
             + (d[3] - Digit0) * 10 + (d[4] - Digit0),
         (d[7] - Digit0) * 10 + (d[8] - Digit0))

\* d is the 8 bytes YYYY-Www, zero-padded, of the year and week of x
Canonical(d, x) == HasForm(d) /\ Spelled(d) = x

\* d is the canonical token of some valid week
IsValidToken(d) == HasForm(d) /\ Valid(Spelled(d))

\* d is the canonical token of some valid week, in double quotes
IsQuotedValidToken(d) ==
    /\ Len(d) = 10
    /\ d[1] = Quote
    /\ d[10] = Quote
    /\ IsValidToken(SubSeq(d, 2, 9))

\* the calls that hand a Week to the program
Producers ==
    {"New", "FromTime", "Add", "Next", "Previous", "UnmarshalJSON",
     "UnmarshalText", "Scan"}

-----------------------------------------------------------------------------
(* The claims *)

\* C1: weeksInYear(year) is 53 exactly when January 1st or December 31st of
\* the year is a Thursday, and 52 otherwise, for every year in 0..9999.
C1_WeeksInYearIsISO ==
    op = "weeksInYear" => val = (IF IsoLongYear(n) THEN 53 ELSE 52)

\* C2: for every valid Week w and every weekday, FromTime(w.Time(weekday)) has
\* the year and the week of w.
C2_TimeRoundTrip ==
    (op = "FromTime(Time)" /\ Valid(w)) => (ret.year = w.year /\ ret.week = w.week)

\* C3: for a valid Week w and any n for which w.Add(n) returns no error, the
\* result u is valid and w.Sub(u) = n; the last week of a year plus 1 is week 1
\* of the next year, and week 1 minus 1 is the last week of the previous year.
C3_AddThenSub ==
    (op = "AddSub" /\ Valid(w)) =>
        /\ err = Nil => (Valid(u) /\ sub.pc /= "panic")
        /\ (err = Nil /\ sub.pc = "done") => sub.result = n
        /\ (n = 1 /\ w.week = weeksInYear(w.year) /\ w.year < MaxYear)
               => (err = Nil /\ u = Week(w.year + 1, 1))
        /\ (n = 0 - 1 /\ w.week = 1 /\ w.year > MinYear)
               => (err = Nil /\ u = Week(w.year - 1, weeksInYear(w.year - 1)))

\* C3's case: a subtraction of more than a year's weeks that went back two
\* years, and Sub gave the same number back
C3_Witness ==
    /\ op = "AddSub"
    /\ Valid(w)
    /\ err = Nil
    /\ sub.pc = "done"
    /\ n < 0 - 53
    /\ u.year = w.year - 2
    /\ sub.result = n

\* C4: for valid w and u, w.Sub(u) is the signed number of weeks from w to u:
\* positive exactly when u is after w, zero exactly when u = w, negative
\* otherwise; w.Sub(u) = -(u.Sub(w)); and from week k of a year to week k of
\* the next year it is weeksInYear of the first.
C4_SubSigned ==
    (op = "Sub" /\ sub.pc = "done" /\ Valid(w) /\ Valid(u)) =>
        /\ sub.result > 0 <=> After(w, u)
        /\ sub.result = 0 <=> u = w
        /\ sub.result < 0 <=> After(u, w)
        /\ \A nan \in NaNInts :
               Sub(u, w, nan).pc = "done" /\ sub.result = 0 - Sub(u, w, nan).result
        /\ (u.year = w.year + 1 /\ u.week = w.week) => sub.result = weeksInYear(w.year)
        /\ Away(w, sub.result) = u

\* C4's case: from week k of a 53-week year to week k of the next year
C4_Witness ==
    /\ op = "Sub"
    /\ sub.pc = "done"
    /\ Valid(w)
    /\ Valid(u)
    /\ u.year = w.year + 1
    /\ u.week = w.week
    /\ sub.result = 53

\* C5: for a valid w, Add(n), Next and Previous return an error and the zero
\* Week exactly when the week n weeks away lies in a year above 9999 or below
\* 0, and otherwise return that week and no error.
C5_AddRange ==
    (op \in Returning /\ Valid(w)) =>
        LET m == IF op = "Add" THEN n ELSE IF op = "Next" THEN 1 ELSE 0 - 1
            t == Away(w, m)
        IN  IF t.year > MaxYear \/ t.year < MinYear
            THEN err /= Nil /\ ret = Zero
            ELSE err = Nil /\ ret = t

\* C5's case: Next on the last week of the last year fails
C5_Witness ==
    /\ op = "Next"
    /\ w = Week(MaxYear, weeksInYear(MaxYear))
    /\ err /= Nil
    /\ ret = Zero

\* C6: New(year, week) returns Week{year, week} and no error if and only if
\* 0 <= year <= 9999 and 1 <= week <= weeksInYear(year); otherwise it returns
\* the zero Week, with an invalid-year error when the year is out of range and
\* an invalid-week error when only the week is.
C6_NewValidates ==
    op = "New" =>
        LET yearOK == MinYear <= n /\ n <= MaxYear
            weekOK == 1 <= k /\ k <= weeksInYear(n)
        IN  /\ err = Nil <=> (yearOK /\ weekOK)
            /\ err = Nil => ret = Week(n, k)
            /\ err /= Nil => ret = Zero
            /\ ~yearOK => err = <<"InvalidYear">>
            /\ (yearOK /\ ~weekOK) => err = <<"InvalidWeek">>

\* C6's case: week 54 of a supported year is refused as an invalid week
C6_Witness ==
    /\ op = "New"
    /\ n = MidYear
    /\ k = 54
    /\ err = <<"InvalidWeek">>
    /\ ret = Zero

\* C7: a valid week is encoded to exactly the 8 bytes YYYY-Www (in double
\* quotes for JSON), and decoding what was encoded gives the week back.
C7_CodecRoundTrip ==
    /\ (op \in {"MarshalText", "Value"} /\ Valid(w))
           => (err = Nil /\ Canonical(data, w))
    /\ (op = "MarshalJSON" /\ Valid(w))
           => /\ err = Nil
              /\ Len(data) = 10
              /\ data[1] = Quote
              /\ data[10] = Quote
              /\ Canonical(SubSeq(data, 2, 9), w)
    /\ (op \in {"JSONRoundTrip", "TextRoundTrip", "ValueRoundTrip"})
           => (err = Nil /\ ~panicked /\ ret = w)

\* C7's case: week 53 went through MarshalJSON and UnmarshalJSON
C7_Witness ==
    /\ op = "JSONRoundTrip"
    /\ Valid(w)
    /\ w.week = 53
    /\ ret = w

\* C8: UnmarshalJSON returns an error, and does not panic, for every input
\* that is not the quoted canonical token of a valid week (the empty input and
\* a lone double quote included); UnmarshalText and Scan return an error for
\* every malformed token.
C8_RejectsWithoutPanic ==
    /\ (op = "UnmarshalJSON" /\ ~IsQuotedValidToken(data))
           => (~panicked /\ err /= Nil)
    /\ (op \in {"UnmarshalText", "Scan"} /\ ~IsValidToken(data))
           => (~panicked /\ err /= Nil)

\* C9: every Week a public operation hands out without an error is valid; the
\* only Week that is not is the zero value.
C9_HeldWeeksValid ==
    /\ (op \in Producers /\ err = Nil /\ ~panicked) => Valid(ret)
    /\ Valid(w) \/ w = Zero

\* C10: for every pair of weeks the loop of w.Sub(u) ends after |u.year -
\* w.year| year-advancing iterations and one last iteration, and never reaches
\* its panic.
C10_GuardUnreachable ==
    op \in {"Sub", "AddSub"} =>
        /\ sub.pc /= "panic"
        /\ sub.pc = "done" => sub.iters = Abs(u.year - w.year) + 1

====
